---- MODULE Spec2Model ----
(***************************************************************************)
(* Authentication slice of the Expense-Tracker backend: the credential     *)
(* store (users collection), and the four handlers of authController       *)
(* (register, login, forgotPassword, resetPassword) run as concurrent      *)
(* requests.  A handler is cut at the store operations it awaits: every    *)
(* findOne and every save is one atomic step on the store; the code that   *)
(* runs between two store operations touches only the request's own state  *)
(* and is folded into the neighbouring step.                               *)
(***************************************************************************)
EXTENDS Integers, Sequences, FiniteSets, TLC

\* ---- bounds of the model ------------------------------------------------
MaxReqs  == 2          \* requests served (each slot serves one request)
MaxTicks == 2          \* clock advances

\* ---- program constants ---------------------------------------------------
ResetTokenWindowMs == 18000000   \* Date.now() + 18000000
ResetJwtTtlSec     == 1800       \* expiresIn: "30m"
LoginJwtTtlSec     == 3600       \* expiresIn: "1h"
MsPerSec           == 1000       \* jsonwebtoken: iat = floor(Date.now() / 1000)

\* ---- input domains -------------------------------------------------------
Reqs      == 1..MaxReqs
Emails    == {"a@x.com", "b@x.com"}
Passwords == {"P1", "P2"}
Names     == {"A"}
missing   == ""                  \* a body field that is absent or empty (falsy)
RoleInputs == {missing, "admin"}
TickSteps == {1, MsPerSec, ResetTokenWindowMs}

\* request bodies: every combination of present fields, and bodies with one
\* required field missing (the fields that are then never read keep one value)
RegisterInputs ==
  [name : Names, email : Emails, password : Passwords, role : RoleInputs]
    \cup [name : {missing}, email : Emails, password : {"P1"}, role : {missing}]
    \cup [name : Names, email : {missing}, password : {"P1"}, role : {missing}]
    \cup [name : Names, email : Emails, password : {missing}, role : {missing}]
    \cup [name : Names, email : {"b@x.com"}, password : {"P1"}, role : {"root"}]
LoginInputs ==
  [email : Emails, password : Passwords]
    \cup [email : {missing}, password : {"P1"}]
    \cup [email : Emails, password : {missing}]

null      == <<>>                \* findOne found nothing
undefined == <<>>                \* an optional field that is not set
BogusToken == <<"jwt", <<"nobody">>, 0, 0>>

VARIABLES users, now, ticks, pc, body, doc, signed, nexts, response, cookie, sent,
          route

vars == <<users, now, ticks, pc, body, doc, signed, nexts, response, cookie, sent,
          route>>

\* ---- libraries -----------------------------------------------------------
Falsy(v) == v = missing

\* bcrypt.hash(password, 10) / bcrypt.compare(password, hash)
BcryptHash(plain) == <<"bcrypt", plain>>
BcryptCompare(plain, hash) == hash = <<"bcrypt", plain>>

\* jwt.sign(payload, secret, {expiresIn}): HS256 over payload, iat and exp;
\* iat is the clock in whole seconds, so equal payloads signed within the
\* same second give the same token.
JwtSign(payload, t, expiresInSec) ==
  <<"jwt", payload, t \div MsPerSec, (t \div MsPerSec) + expiresInSec>>

\* jwt.verify(token, secret): the token is rejected once the clock, in whole
\* seconds, has reached its exp
JwtVerify(token, t) == (t \div MsPerSec) < token[4]

CustomError(message, statusCode) == [message |-> message, statusCode |-> statusCode]

NoResponse == [status |-> 0, message |-> "", data |-> <<>>]

\* ---- the users collection ------------------------------------------------
UserIds(us) == 1..Len(us)

\* new User({name, email, password, role}): schema defaults applied
NewUser(name, email, hash, role) ==
  [name |-> name, email |-> email, password |-> hash,
   role |-> IF role = missing THEN "user" ELSE role,
   resetToken |-> undefined, resetTokenExpiration |-> undefined]

RoleEnum == {"user", "admin"}

\* mutant: the query names the wrong field
FindOneByName(us, email) ==
  IF \E i \in UserIds(us) : us[i].name = email
  THEN LET i == CHOOSE j \in UserIds(us) : us[j].name = email IN <<i, us[i]>>
  ELSE null

\* mutant: the filter is lost (findOne({})), the first document is returned
FindOneAny(us, email) == IF us = <<>> THEN null ELSE <<1, us[1]>>

\* User.findOne({email}): the first matching document, or null
FindOneByEmail(us, email) ==
  IF \E i \in UserIds(us) : us[i].email = email
  THEN LET i == CHOOSE j \in UserIds(us) :
                  /\ us[j].email = email
                  /\ \A k \in UserIds(us) : us[k].email = email => j <= k
       IN <<i, us[i]>>
  ELSE null

\* mutant: the query leaves out the expiration
TokenMatchesAnyTime(u, token, t) == u.resetToken = token

\* mutant: the query leaves out the token
TokenMatchesAnyToken(u, token, t) ==
  /\ u.resetTokenExpiration # undefined
  /\ u.resetTokenExpiration[1] > t

\* the filter {resetToken: token, resetTokenExpiration: {$gt: t}} on one document
TokenMatches(u, token, t) ==
  /\ u.resetToken = token
  /\ u.resetTokenExpiration # undefined
  /\ u.resetTokenExpiration[1] > t

\* User.findOne({resetToken: token, resetTokenExpiration: {$gt: Date.now()}})
FindOneByResetToken(us, token, t) ==
  IF \E i \in UserIds(us) : TokenMatches(us[i], token, t)
  THEN LET i == CHOOSE j \in UserIds(us) :
                  /\ TokenMatches(us[j], token, t)
                  /\ \A k \in UserIds(us) : TokenMatches(us[k], token, t) => j <= k
       IN <<i, us[i]>>
  ELSE null

\* mutant: the schema declares no unique index
NoUniqueIndex(us, email) == TRUE

\* the unique index on email (unique: true) rejects a second document
UniqueIndexAllows(us, email) == \A i \in UserIds(us) : us[i].email # email

\* ---- terminal calls of a handler ----------------------------------------
\* next(err): the error reaches the error-handling middleware, which sends
\* err.statusCode and err.message unless a response has already been sent.
ErrorHandler(resp, err) ==
  IF resp.status = 0
  THEN [status |-> err.statusCode, message |-> err.message, data |-> <<>>]
  ELSE resp

\* res.status(status).json({message, data})
Json(status, message, data) == [status |-> status, message |-> message, data |-> data]

EmptyBody == [op |-> "none", name |-> missing, email |-> missing,
              password |-> missing, role |-> missing, token |-> undefined]

\* requests are taken up in slot order
CanStart(r) == /\ pc[r] = "idle"
               /\ \A q \in Reqs : q < r => pc[q] # "idle"

\* ---- protected routes -------------------------------------------------------
\* router: the allow-list handed to authorizationRoles on each route
Routes ==
  { [method |-> "GET",    path |-> "/users",    allowed |-> {"admin"}],
    [method |-> "GET",    path |-> "/user/:id", allowed |-> {"user", "admin"}],
    [method |-> "PUT",    path |-> "/user/:id", allowed |-> {"user", "admin"}],
    [method |-> "DELETE", path |-> "/user/:id", allowed |-> {"admin"}] }

\* req.user as the guard finds it: not set, or the {id, role} of a token
RouteUsers == {undefined} \cup ((1..2) \X {"user", "admin", "root"})

NoRoute == [stage |-> "idle", method |-> "", path |-> "", allowed |-> {},
            user |-> undefined, err |-> <<>>]

\* mutant: the guard only checks that a user is attached
AuthorizationRolesAnyRole(allowedRoles, user) ==
  IF user = undefined
  THEN <<CustomError(
    "You are unauthorized for this action. Please contact system administration.", 401)>>
  ELSE <<>>

\* authorizationRoles(...allowedRoles)(req, res, next): the error passed to
\* next, or none when next() lets the request proceed
AuthorizationRoles(allowedRoles, user) ==
  IF user = undefined \/ user[2] \notin allowedRoles
  THEN <<CustomError(
    "You are unauthorized for this action. Please contact system administration.", 401)>>
  ELSE <<>>

\* ---- initial states ------------------------------------------------------
SeedUser == NewUser("A", "a@x.com", BcryptHash("P1"), missing)
SeedToken == JwtSign(<<"a@x.com">>, 0, ResetJwtTtlSec)
SeedUserWithToken ==
  [SeedUser EXCEPT !.resetToken = SeedToken,
                   !.resetTokenExpiration = <<ResetTokenWindowMs>>]

Init ==
  /\ now = 0
  /\ ticks = 0
  /\ \/ users = <<>> /\ sent = {}
     \/ users = <<SeedUser>> /\ sent = {}
     \/ users = <<SeedUserWithToken>> /\ sent = {<<"a@x.com", SeedToken>>}
  /\ pc = [r \in Reqs |-> "idle"]
  /\ body = [r \in Reqs |-> EmptyBody]
  /\ doc = [r \in Reqs |-> null]
  /\ signed = [r \in Reqs |-> <<>>]
  /\ nexts = [r \in Reqs |-> <<>>]
  /\ response = [r \in Reqs |-> NoResponse]
  /\ cookie = [r \in Reqs |-> undefined]
  /\ route = [q \in Reqs |-> NoRoute]

\* a handler ends by calling next(err) once
Fail(r, err) ==
  /\ nexts' = [nexts EXCEPT ![r] = Append(@, err)]
  /\ response' = [response EXCEPT ![r] = ErrorHandler(@, err)]
  /\ pc' = [pc EXCEPT ![r] = "done"]

\* ---- register ------------------------------------------------------------
\* validation and User.findOne({email})
RegisterFindOne(r, name, email, password, role) ==
  /\ CanStart(r)
  /\ body' = [body EXCEPT ![r] = [op |-> "register", name |-> name, email |-> email,
                                  password |-> password, role |-> role,
                                  token |-> undefined]]
  /\ IF Falsy(name) \/ Falsy(email) \/ Falsy(password)
     THEN Fail(r, CustomError("Input fields are empty. Please fill the fields.", 400))
     ELSE IF FindOneByEmail(users, email) # null
     THEN Fail(r, CustomError("User already registered. Please use login for process.", 400))
     ELSE /\ pc' = [pc EXCEPT ![r] = "register:save"]
          /\ UNCHANGED <<nexts, response>>
  /\ UNCHANGED <<route, users, now, ticks, doc, signed, cookie, sent>>

\* bcrypt.hash, new User(...), newUser.save(), response
RegisterSave(r) ==
  /\ pc[r] = "register:save"
  /\ LET b == body[r]
         newUser == NewUser(b.name, b.email, BcryptHash(b.password), b.role)
     IN IF newUser.role \notin RoleEnum
        THEN /\ Fail(r, CustomError("users validation failed: role", 500))
             /\ UNCHANGED users
        ELSE IF ~UniqueIndexAllows(users, b.email)
        THEN /\ Fail(r, CustomError("E11000 duplicate key error", 500))
             /\ UNCHANGED users
        ELSE /\ users' = Append(users, newUser)
             /\ response' = [response EXCEPT ![r] =
                               Json(201, "New user created.", <<newUser>>)]
             /\ pc' = [pc EXCEPT ![r] = "done"]
             /\ UNCHANGED nexts
  /\ UNCHANGED <<route, now, ticks, body, doc, signed, cookie, sent>>

\* ---- login -----------------------------------------------------------------
\* mutant: the handler does not look at existUser before reading its password
LoginNextCallsUnchecked(email, password, existUser) ==
  IF Falsy(email) \/ Falsy(password)
  THEN <<CustomError("Input fields are empty.", 400)>>
  ELSE IF existUser = null
  THEN <<CustomError("Cannot read properties of null (reading 'password')", 500)>>
  ELSE IF ~BcryptCompare(password, existUser[2].password)
  THEN <<CustomError("Password incorrect. Please try again", 400)>>
  ELSE <<>>

\* the errors the handler passes to next, in order.  For an unknown email
\* next(...) is called without return, existUser.password then throws, and
\* the catch block calls next a second time.
LoginNextCalls(email, password, existUser) ==
  IF Falsy(email) \/ Falsy(password)
  THEN <<CustomError("Input fields are empty.", 400)>>
  ELSE IF existUser = null
  THEN <<CustomError(
           "User not registered. Please create account using register and login again.", 400),
         CustomError("Cannot read properties of null (reading 'password')", 500)>>
  ELSE IF ~BcryptCompare(password, existUser[2].password)
  THEN <<CustomError("Password incorrect. Please try again", 400)>>
  ELSE <<>>

\* mutant: the payload carries the default role instead of the user's
LoginTokenDefaultRole(existUser, t) ==
  JwtSign(<<existUser[1], "user">>, t, LoginJwtTtlSec)

\* jwt.sign({id: existUser._id, role: existUser.role}, ..., {expiresIn: "1h"})
LoginToken(existUser, t) ==
  JwtSign(<<existUser[1], existUser[2].role>>, t, LoginJwtTtlSec)

RECURSIVE HandleAll(_, _)
HandleAll(resp, errs) ==
  IF errs = <<>> THEN resp ELSE HandleAll(ErrorHandler(resp, Head(errs)), Tail(errs))

\* the whole handler: its only store operation is User.findOne({email})
Login(r, email, password) ==
  /\ CanStart(r)
  /\ body' = [body EXCEPT ![r] = [op |-> "login", name |-> missing, email |-> email,
                                  password |-> password, role |-> missing,
                                  token |-> undefined]]
  /\ LET existUser == FindOneByEmail(users, email)
         errs == LoginNextCalls(email, password, existUser)
     IN IF errs # <<>>
        THEN /\ nexts' = [nexts EXCEPT ![r] = @ \o errs]
             /\ response' = [response EXCEPT ![r] = HandleAll(@, errs)]
             /\ UNCHANGED cookie
        ELSE LET accessToken == LoginToken(existUser, now)
             IN /\ cookie' = [cookie EXCEPT ![r] = accessToken]
                /\ response' = [response EXCEPT ![r] =
                                  Json(200, "Login successful.", accessToken)]
                /\ UNCHANGED nexts
  /\ pc' = [pc EXCEPT ![r] = "done"]
  /\ UNCHANGED <<route, users, now, ticks, doc, signed, sent>>

\* ---- forgot password ------------------------------------------------------
\* validation and User.findOne({email})
ForgotFindOne(r, email) ==
  /\ CanStart(r)
  /\ body' = [body EXCEPT ![r] = [op |-> "forgot", name |-> missing, email |-> email,
                                  password |-> missing, role |-> missing,
                                  token |-> undefined]]
  /\ LET existUser == FindOneByEmail(users, email)
     IN IF Falsy(email)
        THEN /\ Fail(r, CustomError("Input filed is empty", 400))
             /\ UNCHANGED doc
        ELSE IF existUser = null
        THEN /\ Fail(r, CustomError("User not found.", 404))
             /\ UNCHANGED doc
        ELSE /\ doc' = [doc EXCEPT ![r] = existUser]
             /\ pc' = [pc EXCEPT ![r] = "forgot:sign"]
             /\ UNCHANGED <<nexts, response>>
  /\ UNCHANGED <<route, users, now, ticks, signed, cookie, sent>>

\* jwt.sign({email}, ..., "30m") and Date.now() + 18000000, set on the
\* loaded document
ForgotSign(r) ==
  /\ pc[r] = "forgot:sign"
  /\ signed' = [signed EXCEPT ![r] =
                  <<JwtSign(<<doc[r][2].email>>, now, ResetJwtTtlSec),
                    <<now + ResetTokenWindowMs>>>>]
  /\ pc' = [pc EXCEPT ![r] = "forgot:save"]
  /\ UNCHANGED <<route, users, now, ticks, body, doc, nexts, response, cookie, sent>>

\* existUser.save() writes the paths whose value differs from the loaded
\* one (an update by _id with $set of the modified paths)
SaveResetFields(us, loaded, token, expiration) ==
  [us EXCEPT ![loaded[1]] =
     [@ EXCEPT !.resetToken = IF loaded[2].resetToken # token THEN token ELSE @,
               !.resetTokenExpiration =
                  IF loaded[2].resetTokenExpiration # expiration THEN expiration ELSE @]]

\* existUser.save(), then emailService(existUser.email, subject, text); the
\* handler returns without sending a response
ForgotSave(r) ==
  /\ pc[r] = "forgot:save"
  /\ users' = SaveResetFields(users, doc[r], signed[r][1], signed[r][2])
  /\ sent' = sent \cup {<<doc[r][2].email, signed[r][1]>>}
  /\ pc' = [pc EXCEPT ![r] = "done"]
  /\ UNCHANGED <<route, now, ticks, body, doc, signed, nexts, response, cookie>>

\* ---- reset password -------------------------------------------------------
\* the tokens a client can present: those mailed so far, or a made-up one
TokenInputs == {m[2] : m \in sent} \cup {BogusToken}
ResetInputs ==
  [token : TokenInputs, password : Passwords]
    \cup [token : {BogusToken}, password : {missing}]

\* validation and User.findOne({resetToken, resetTokenExpiration: {$gt: now}})
ResetFindOne(r, token, password) ==
  /\ CanStart(r)
  /\ body' = [body EXCEPT ![r] = [op |-> "reset", name |-> missing, email |-> missing,
                                  password |-> password, role |-> missing,
                                  token |-> token]]
  /\ LET existUser == FindOneByResetToken(users, token, now)
     IN IF Falsy(password)
        THEN /\ Fail(r, CustomError("Enter your new password.", 400))
             /\ UNCHANGED doc
        ELSE IF existUser = null
        THEN /\ Fail(r, CustomError("Password reset token expired or invalid.", 404))
             /\ UNCHANGED doc
        ELSE /\ doc' = [doc EXCEPT ![r] = existUser]
             /\ pc' = [pc EXCEPT ![r] = "reset:save"]
             /\ UNCHANGED <<nexts, response>>
  /\ UNCHANGED <<route, users, now, ticks, signed, cookie, sent>>

\* mutant: the reset token is left in place
SaveNewPasswordKeepToken(us, loaded, hash) ==
  [us EXCEPT ![loaded[1]] = [@ EXCEPT !.password = hash]]

\* the loaded document had both reset fields set, so clearing them and
\* replacing the hash modifies all three paths
SaveNewPassword(us, loaded, hash) ==
  [us EXCEPT ![loaded[1]] =
     [@ EXCEPT !.password = hash,
               !.resetToken = undefined,
               !.resetTokenExpiration = undefined]]

\* bcrypt.hash, clear the reset fields, existUser.save(), response
ResetSave(r) ==
  /\ pc[r] = "reset:save"
  /\ users' = SaveNewPassword(users, doc[r], BcryptHash(body[r].password))
  /\ response' = [response EXCEPT ![r] =
                    Json(200, "Password reset successful.", <<>>)]
  /\ pc' = [pc EXCEPT ![r] = "done"]
  /\ UNCHANGED <<route, now, ticks, body, doc, signed, nexts, cookie, sent>>

\* ---- the clock --------------------------------------------------------------
Tick(d) ==
  /\ ticks < MaxTicks
  /\ ticks' = ticks + 1
  /\ now' = now + d
  /\ UNCHANGED <<route, users, pc, body, doc, signed, nexts, response, cookie, sent>>

Next ==
  \/ \E r \in Reqs, b \in RegisterInputs :
       RegisterFindOne(r, b.name, b.email, b.password, b.role)
  \/ \E r \in Reqs : RegisterSave(r)
  \/ \E r \in Reqs, b \in LoginInputs : Login(r, b.email, b.password)
  \/ \E r \in Reqs, email \in Emails \cup {missing} : ForgotFindOne(r, email)
  \/ \E r \in Reqs : ForgotSign(r)
  \/ \E r \in Reqs : ForgotSave(r)
  \/ \E r \in Reqs, b \in ResetInputs : ResetFindOne(r, b.token, b.password)
  \/ \E r \in Reqs : ResetSave(r)
  \/ \E d \in TickSteps : Tick(d)

Spec == Init /\ [][Next]_vars

\* ---- failing collaborators -----------------------------------------------
\* An awaited call rejects: the catch block of the handler passes the error
\* to next with status 500.
\* bcrypt.hash or newUser.save() rejects
RegisterSaveFails(r) ==
  /\ pc[r] = "register:save"
  /\ Fail(r, CustomError("save failed", 500))
  /\ UNCHANGED <<route, users, now, ticks, body, doc, signed, cookie, sent>>

\* existUser.save() rejects: nothing is written, no email is sent
ForgotSaveFails(r) ==
  /\ pc[r] = "forgot:save"
  /\ Fail(r, CustomError("save failed", 500))
  /\ UNCHANGED <<route, users, now, ticks, body, doc, signed, cookie, sent>>

\* existUser.save() has written the reset fields, then emailService rejects
ForgotEmailFails(r) ==
  /\ pc[r] = "forgot:save"
  /\ users' = SaveResetFields(users, doc[r], signed[r][1], signed[r][2])
  /\ Fail(r, CustomError("email failed", 500))
  /\ UNCHANGED <<route, now, ticks, body, doc, signed, cookie, sent>>

\* bcrypt.hash or existUser.save() rejects
ResetSaveFails(r) ==
  /\ pc[r] = "reset:save"
  /\ Fail(r, CustomError("save failed", 500))
  /\ UNCHANGED <<route, users, now, ticks, body, doc, signed, cookie, sent>>

NextFault ==
  \/ Next
  \/ \E r \in Reqs : RegisterSaveFails(r)
  \/ \E r \in Reqs : ForgotSaveFails(r)
  \/ \E r \in Reqs : ForgotEmailFails(r)
  \/ \E r \in Reqs : ResetSaveFails(r)

SpecFault == Init /\ [][NextFault]_vars

\* ---- a reset link older than its announced lifetime -------------------------
\* the clock passes the 30 minutes named in the mail and in the token's own exp
LinkLifetimeStep == (ResetJwtTtlSec + 1) * MsPerSec

NextLate ==
  \/ Next
  \/ Tick(LinkLifetimeStep)

SpecLate == Init /\ [][NextLate]_vars

\* ---- requests to the protected routes --------------------------------------
\* a request reaches the role guard of its route
RouteArrives(q, rt, user) ==
  /\ route[q].stage = "idle"
  /\ \A k \in Reqs : k < q => route[k].stage # "idle"
  /\ route' = [route EXCEPT ![q] = [stage |-> "guard", method |-> rt.method,
                                    path |-> rt.path, allowed |-> rt.allowed,
                                    user |-> user, err |-> <<>>]]
  /\ UNCHANGED <<users, now, ticks, pc, body, doc, signed, nexts, response, cookie, sent>>

\* the middleware returned by authorizationRoles runs
RoleGuard(q) ==
  /\ route[q].stage = "guard"
  /\ LET errs == AuthorizationRoles(route[q].allowed, route[q].user)
     IN route' = [route EXCEPT ![q].stage = IF errs = <<>> THEN "handler" ELSE "rejected",
                               ![q].err = errs]
  /\ UNCHANGED <<users, now, ticks, pc, body, doc, signed, nexts, response, cookie, sent>>

\* next() of the guard has passed the request on to the route's handler
RouteHandler(q) ==
  /\ route[q].stage = "handler"
  /\ route' = [route EXCEPT ![q].stage = "handled"]
  /\ UNCHANGED <<users, now, ticks, pc, body, doc, signed, nexts, response, cookie, sent>>

NextGuard ==
  \/ \E q \in Reqs, rt \in Routes, user \in RouteUsers : RouteArrives(q, rt, user)
  \/ \E q \in Reqs : RoleGuard(q)
  \/ \E q \in Reqs : RouteHandler(q)

SpecGuard == Init /\ [][NextGuard]_vars

\* ---- steps, as seen by the properties ------------------------------------
Starts(r, op) == pc[r] = "idle" /\ pc'[r] # "idle" /\ body'[r].op = op
Finishes(r, at) == pc[r] = at /\ pc'[r] = "done"
EmailStored(us, email) == \E i \in UserIds(us) : us[i].email = email
TokenUsable(us, token, t) ==
  \E i \in UserIds(us) : /\ us[i].resetToken = token
                         /\ us[i].resetTokenExpiration # undefined
                         /\ us[i].resetTokenExpiration[1] > t
DuplicateUser == [status |-> 400,
                  message |-> "User already registered. Please use login for process.",
                  data |-> <<>>]
NotRegistered == [status |-> 400,
                  message |-> "User not registered. Please create account using register and login again.",
                  data |-> <<>>]
TokenInvalid400 == [status |-> 400,
                    message |-> "Password reset token expired or invalid.",
                    data |-> <<>>]

\* C1: in every reachable state no two user records share an email, whatever
\* the interleaving of the findOne and save steps of concurrent registers.
C1_EmailUnique ==
  \A i, j \in UserIds(users) : users[i].email = users[j].email => i = j

\* two registers for one email both passed findOne; the index refused one
C1_Witness ==
  \E r, q \in Reqs :
    /\ r # q
    /\ body[r].op = "register" /\ body[q].op = "register"
    /\ body[r].email = body[q].email
    /\ response[r].status = 201
    /\ response[q].status = 500

\* C2: for every token value at most one reset-password request presenting
\* it succeeds in replacing the stored password.
C2_TokenSingleUse ==
  \A r, q \in Reqs :
    ( /\ body[r].op = "reset" /\ body[q].op = "reset"
      /\ body[r].token = body[q].token
      /\ response[r].status = 200 /\ response[q].status = 200 ) => r = q

\* C3 (as stated): a register whose email belongs to a stored user fails with
\* the 400 duplicate-user error whatever the other fields are, and leaves
\* the user records unchanged.
C3_DuplicateAlways ==
  [][\A r \in Reqs :
       (Starts(r, "register") /\ EmailStored(users, body'[r].email))
         => (pc'[r] = "done" /\ response'[r] = DuplicateUser /\ users' = users)]_vars

\* C3 (amended): a register with non-empty name and password whose email
\* belongs to a stored user fails with the 400 duplicate-user error and
\* leaves the user records unchanged.
C3_DuplicateWhenComplete ==
  [][\A r \in Reqs :
       ( /\ Starts(r, "register")
         /\ EmailStored(users, body'[r].email)
         /\ body'[r].name # missing /\ body'[r].password # missing )
         => (pc'[r] = "done" /\ response'[r] = DuplicateUser /\ users' = users)]_vars

C3_Witness ==
  \E r \in Reqs :
    /\ body[r].op = "register" /\ pc[r] = "done"
    /\ EmailStored(users, body[r].email)
    /\ response[r] = DuplicateUser

\* the plaintexts a stored hash verifies
Verifies(hash) == {p \in Passwords : BcryptCompare(p, hash)}

\* C4 (as stated): a reset-password that found its token responds 200,
\* leaves both reset fields absent, and afterwards the previous plaintext no
\* longer verifies while the submitted one does.
C4_ResetReplacesSecret ==
  [][\A r \in Reqs :
       Finishes(r, "reset:save") =>
         LET id == doc[r][1]
         IN /\ response'[r].status = 200
            /\ users'[id].resetToken = undefined
            /\ users'[id].resetTokenExpiration = undefined
            /\ BcryptCompare(body[r].password, users'[id].password)
            /\ \A p \in Verifies(users[id].password) :
                 ~BcryptCompare(p, users'[id].password)]_vars

\* C4 (amended): as above, but the previous plaintext stops verifying only
\* when the submitted password differs from it.
C4_ResetReplacesSecretIfNew ==
  [][\A r \in Reqs :
       Finishes(r, "reset:save") =>
         LET id == doc[r][1]
         IN /\ response'[r].status = 200
            /\ users'[id].resetToken = undefined
            /\ users'[id].resetTokenExpiration = undefined
            /\ BcryptCompare(body[r].password, users'[id].password)
            /\ \A p \in Verifies(users[id].password) \ {body[r].password} :
                 ~BcryptCompare(p, users'[id].password)]_vars

\* a reset that replaced the loaded secret by a different one
C4_Witness ==
  \E r \in Reqs :
    /\ body[r].op = "reset" /\ pc[r] = "done" /\ response[r].status = 200
    /\ LET id == doc[r][1]
       IN /\ BcryptCompare(body[r].password, users[id].password)
          /\ ~BcryptCompare(body[r].password, doc[r][2].password)
          /\ users[id].resetToken = undefined
          /\ users[id].resetTokenExpiration = undefined

\* C5: a reset-password whose token matches no record, or only a record whose
\* expiration is not after now, fails and leaves every user record unchanged.
C5_BadTokenFails ==
  [][\A r \in Reqs :
       (Starts(r, "reset") /\ ~TokenUsable(users, body'[r].token, now))
         => /\ pc'[r] = "done"
            /\ Len(nexts'[r]) = 1
            /\ response'[r].status >= 400
            /\ users' = users]_vars

\* a rejected reset whose token is still stored, with its expiration passed
C5_Witness ==
  \E r \in Reqs :
    /\ body[r].op = "reset" /\ pc[r] = "done" /\ body[r].password # missing
    /\ response[r].status = 404
    /\ \E i \in UserIds(users) :
         /\ users[i].resetToken = body[r].token
         /\ users[i].resetTokenExpiration # undefined
         /\ users[i].resetTokenExpiration[1] <= now

\* the tokens mailed to an address so far
IssuedTo(email) == {m[2] : m \in {n \in sent : n[1] = email}}

C7_ResetFieldsPaired ==
  \A i \in UserIds(users) :
    (users[i].resetToken = undefined) <=> (users[i].resetTokenExpiration = undefined)

\* C8: a login with non-empty email and password whose email matches no
\* stored user is answered 400 'User not registered...', with no token in the
\* response and no cookie set.
C8_UnknownEmailLogin ==
  [][\A r \in Reqs :
       ( /\ Starts(r, "login")
         /\ body'[r].email # missing /\ body'[r].password # missing
         /\ ~EmailStored(users, body'[r].email) )
         => /\ pc'[r] = "done"
            /\ response'[r] = NotRegistered
            /\ cookie'[r] = undefined]_vars

C8_Witness ==
  \E r \in Reqs :
    /\ body[r].op = "login" /\ pc[r] = "done"
    /\ body[r].email # missing /\ body[r].password # missing
    /\ ~EmailStored(users, body[r].email)
    /\ response[r] = NotRegistered
    /\ cookie[r] = undefined

\* C9: a forgot-password for a stored user's email ends with a 200 response,
\* after token and expiration are persisted and the email service was called.
C9_ForgotAnswers200 ==
  \A r \in Reqs :
    ( /\ body[r].op = "forgot" /\ pc[r] = "done"
      /\ doc[r] # null
      /\ <<doc[r][2].email, signed[r][1]>> \in sent ) => response[r].status = 200

\* C10: a reset-password with a non-empty password whose token is expired or
\* invalid is answered 400 'Password reset token expired or invalid.'.
C10_BadTokenIs400 ==
  \A r \in Reqs :
    ( /\ body[r].op = "reset" /\ pc[r] = "done"
      /\ body[r].password # missing
      /\ doc[r] = null ) => response[r] = TokenInvalid400

\* C11: every handler writes to the store only in its last step, so a request
\* that ends in an error leaves the store as it found it exactly when the
\* step that ends it with an error writes nothing.  Checked with the
\* collaborators (save, hash, email) allowed to fail.
C11_ErrorsLeaveStore ==
  [][\A r \in Reqs :
       (pc[r] # "done" /\ pc'[r] = "done" /\ nexts'[r] # <<>>)
         => users' = users]_vars

\* C12: a reset-password presenting a token that forgot-password issued more
\* than 30 minutes earlier (a full second past the token's exp) is rejected
\* and so never reaches the save that changes the password.
C12_LinkDeadAfter30Min ==
  [][\A r \in Reqs :
       ( /\ Starts(r, "reset")
         /\ body'[r].token \in {m[2] : m \in sent}
         /\ now >= (body'[r].token[4] + 1) * MsPerSec )
         => (pc'[r] = "done" /\ response'[r].status >= 400 /\ users' = users)]_vars

Unauthorized == CustomError(
  "You are unauthorized for this action. Please contact system administration.", 401)
AdminOnly(rt) == rt.path = "/users" \/ (rt.method = "DELETE" /\ rt.path = "/user/:id")

\* C13: once the role guard has run, the request has gone on to the handler
\* if and only if req.user exists and its role is in the route's allow-list;
\* otherwise next got the 401 error and the handler is never reached.  On the
\* admin-only routes (GET /users, DELETE /user/:id) every request without
\* the role admin is rejected.
C13_RoleGuard ==
  \A q \in Reqs :
    LET rt == route[q]
        passed == rt.stage \in {"handler", "handled"}
        allowedUser == IF rt.user = undefined THEN FALSE ELSE rt.user[2] \in rt.allowed
        admin == IF rt.user = undefined THEN FALSE ELSE rt.user[2] = "admin"
    IN rt.stage \in {"handler", "handled", "rejected"} =>
         /\ passed <=> allowedUser
         /\ ~passed => rt.err = <<Unauthorized>>
         /\ (AdminOnly(rt) /\ ~admin) => rt.stage = "rejected"

\* a user of role "user" was turned away from an admin-only route
C13_Witness ==
  \E q \in Reqs :
    /\ AdminOnly(route[q])
    /\ route[q].user # undefined
    /\ route[q].user[2] = "user"
    /\ route[q].stage = "rejected"

\* C14: a login answers with a token only when a stored user has the
\* presented email and the presented password verifies against its hash; the
\* token (in the body and in the cookie) carries exactly that user's id and
\* role, verifies while less than one hour has passed and no longer verifies
\* once the hour has elapsed.
C14_LoginToken ==
  [][\A r \in Reqs :
       (Starts(r, "login") /\ (cookie'[r] # undefined \/ response'[r].status = 200))
         => \E i \in UserIds(users) :
              LET tok == response'[r].data
              IN /\ users[i].email = body'[r].email
                 /\ BcryptCompare(body'[r].password, users[i].password)
                 /\ response'[r].status = 200
                 /\ cookie'[r] = tok
                 /\ tok[2] = <<i, users[i].role>>
                 /\ JwtVerify(tok, now)
                 /\ JwtVerify(tok, now + (LoginJwtTtlSec - 1) * MsPerSec)
                 /\ ~JwtVerify(tok, now + LoginJwtTtlSec * MsPerSec)]_vars

\* an admin registered and logged in: the token names the admin role
C14_Witness ==
  \E r \in Reqs : \E i \in UserIds(users) :
    /\ body[r].op = "login" /\ pc[r] = "done" /\ response[r].status = 200
    /\ users[i].email = body[r].email
    /\ users[i].role = "admin"
    /\ cookie[r][2] = <<i, "admin">>

UserNotFound == [status |-> 404, message |-> "User not found.", data |-> <<>>]

\* C15 (as stated): a forgot-password whose email matches no stored user fails
\* with 404 'User not found.', modifies no user record and sends no email.
C15_UnknownEmail404 ==
  [][\A r \in Reqs :
       (Starts(r, "forgot") /\ ~EmailStored(users, body'[r].email))
         => /\ pc'[r] = "done"
            /\ response'[r] = UserNotFound
            /\ users' = users
            /\ sent' = sent]_vars

\* C15 (amended): the same for a non-empty email; an empty email is answered
\* 400 'Input filed is empty'.
C15_UnknownNonEmptyEmail404 ==
  [][\A r \in Reqs :
       ( /\ Starts(r, "forgot")
         /\ body'[r].email # missing
         /\ ~EmailStored(users, body'[r].email) )
         => /\ pc'[r] = "done"
            /\ response'[r] = UserNotFound
            /\ users' = users
            /\ sent' = sent]_vars

\* an unknown address was refused while another user is stored
C15_Witness ==
  \E r \in Reqs :
    /\ body[r].op = "forgot" /\ pc[r] = "done"
    /\ body[r].email # missing
    /\ ~EmailStored(users, body[r].email)
    /\ users # <<>>
    /\ response[r] = UserNotFound
    /\ nexts[r] = <<CustomError("User not found.", 404)>>

\* C16: every finished invocation of a handler has produced exactly one
\* terminal outcome: one response sent by the handler, or one call of next
\* with an error.
HandlerSent(r) == IF response[r].status \in {200, 201} THEN 1 ELSE 0
C16_OneOutcome ==
  \A r \in Reqs : pc[r] = "done" => HandlerSent(r) + Len(nexts[r]) = 1
====
